---- MODULE Spec2Model ----
(***************************************************************************)
(* PILForensicAnalyzer (backend/image_analysis.py): one analyzer object,   *)
(* its results dictionary, and the generate_report / analyze_image         *)
(* pipeline run on it any number of times.                                 *)
(*                                                                         *)
(* Pillow and numpy are external: a decoded image is represented by the    *)
(* measurements the library calls return for it (error-map variance,       *)
(* noise ratio, channel means, ...).  Real-valued measurements are kept as *)
(* scaled integers; the suffix says the scale (ela10 = variance in tenths, *)
(* noise100 = ratio in hundredths).                                        *)
(***************************************************************************)
EXTENDS Integers, Sequences, FiniteSets, TLC

VARIABLES
    results,        \* self.results, the one dictionary the analyzer owns
    thresholds,     \* self.thresholds
    image_path,     \* self.image_path
    original_image, \* self.original_image
    pc,             \* position inside generate_report -> analyze_image
    img,            \* the local img of the running analyze_image call
    temp_file,      \* whether _temp_ela.jpg exists in the working directory
    analysis,       \* the value analyze_image returned last
    report,         \* the value generate_report returned last
    held,           \* whether a caller holds a dictionary returned earlier
    invocations,    \* how many times generate_report has been called
    calibration_summary, \* self.calibration_summary
    passes,         \* the _perform_ela calls running side by side, by task
    temp_content,   \* whose re-encoding _temp_ela.jpg holds
    matcher,        \* a call of _detect_compression_profile: arguments and result
    clone,          \* a call of _detect_clone_regions: image, loop position, locals
    helper,         \* a call of another helper on its own: arguments and result
    memory,         \* a MemoryBackend, its clock and the calls made on it
    alerts          \* the alerts table and the AlertService calls in progress

vars == <<results, thresholds, image_path, original_image, pc, img,
          temp_file, analysis, report, held, invocations,
          calibration_summary, passes, temp_content, matcher, clone,
          helper, memory, alerts>>

\* what the analyze_image pipeline of one analyzer never touches
aside == <<calibration_summary, passes, temp_content, matcher, clone,
           helper, memory, alerts>>

\* the other modules of the backend, which the analyzer never touches
services == <<helper, memory, alerts>>

\* no helper called on its own, no cache and no alert service in use
Apart ==
    /\ helper = [kind |-> "None"]
    /\ memory = [kind |-> "None"]
    /\ alerts = [kind |-> "None"]

(***************************************************************************)
(* Bounds of the model.                                                    *)
(***************************************************************************)
MaxInvocations == 3

(***************************************************************************)
(* Small helpers for Python dictionaries and sequences.                    *)
(***************************************************************************)
Put(d, k, v) == [x \in (DOMAIN d) \cup {k} |-> IF x = k THEN v ELSE d[x]]

Get(d, k, default) == IF k \in DOMAIN d THEN d[k] ELSE default

SetDefault(d, k, v) == IF k \in DOMAIN d THEN d ELSE Put(d, k, v)

Min(a, b) == IF a < b THEN a ELSE b

Max(a, b) == IF a > b THEN a ELSE b

Abs(a) == IF a < 0 THEN 0 - a ELSE a

RECURSIVE SumSeq(_)
SumSeq(s) == IF s = <<>> THEN 0 ELSE Head(s) + SumSeq(Tail(s))

Opt(cond, m) == IF cond THEN <<m>> ELSE <<>>

(***************************************************************************)
(* An anomaly or indicator message.  The Python value is the string        *)
(* "<tag>: <fixed wording> <text> <args>": tag picks the f-string, text is *)
(* the interpolated string and args the interpolated numbers.              *)
(***************************************************************************)
Msg(tag, text, args) == [tag |-> tag, text |-> text, args |-> args]

\* The keywords tested by `kw in a` that occur in the fixed wording of each
\* message (case-sensitive, as Python's substring test is).
KeywordsOfTag(tag) ==
    CASE tag = "NO_EXIF_DATA" -> {"NO_EXIF_DATA"}
      [] tag = "EDITING_SOFTWARE" -> {"EDITING_SOFTWARE"}
      [] tag = "UNUSUAL_FORMAT" -> {"UNUSUAL_FORMAT"}
      [] tag = "CLONE_DETECTED" -> {"CLONE"}
      [] tag = "RESAMPLING_DETECTED" -> {"RESAMPLING", "RESAMPLING_DETECTED"}
      [] tag = "MEDIAN_FILTER_DETECTED" -> {"MEDIAN_FILTER", "MEDIAN_FILTER_DETECTED"}
      [] tag = "NOISE_INCONSISTENCY" -> {"NOISE", "NOISE_INCONSISTENCY"}
      [] tag = "COMPRESSION_ANOMALIES" -> {"COMPRESSION"}
      [] tag = "COLOR_TEMPERATURE_INCONSISTENCY" -> {"COLOR_TEMPERATURE"}
      [] OTHER -> {}

\* The tested keywords that occur in an interpolated text (software name,
\* camera model, container format).
KeywordsOfText(text) ==
    CASE text = "NO_EXIF_DATA-Cam" -> {"NO_EXIF_DATA"}
      [] OTHER -> {}

\* Python: kw in a
Contains(a, kw) == kw \in (KeywordsOfTag(a.tag) \cup KeywordsOfText(a.text))

(***************************************************************************)
(* __init__                                                                *)
(***************************************************************************)
ela_very_low10 == 150
ela_low10 == 400
ela_high10 == 6000
ela_very_high10 == 10000
noise_ratio_max100 == 300
edge_consistency_diff10 == 200
resampling_fft_peak_ratio10 == 80
color_corr_low100 == 85
clone_block_size == 32
clone_distance_min_blocks == 2

DefaultThresholds ==
    [ela |-> [very_low10 |-> ela_very_low10, low10 |-> ela_low10,
              high10 |-> ela_high10, very_high10 |-> ela_very_high10],
     noise_ratio_max100 |-> noise_ratio_max100,
     edge_consistency_diff10 |-> edge_consistency_diff10,
     resampling_fft_peak_ratio10 |-> resampling_fft_peak_ratio10,
     color_corr_low100 |-> color_corr_low100,
     clone_block_size |-> clone_block_size,
     clone_distance_min_blocks |-> clone_distance_min_blocks]

InitialResults ==
    [metadata_anomalies |-> <<>>,
     pixel_anomalies |-> <<>>,
     forensic_indicators |-> <<>>,
     risk_score |-> 0,
     analysis_timestamp |-> "constructed"]

NoImage == [kind |-> "None"]

NoValue == [kind |-> "None"]

\* calibration or {}: the empty dictionary
NoCalibration == <<>>

(***************************************************************************)
(* _analyze_metadata                                                       *)
(***************************************************************************)
CommonFormats == {"JPEG", "PNG", "TIFF"}

\* any(tool in software_lower for tool in editing_tools), for the software
\* tags the model feeds in
EditingSoftware == {"Adobe Photoshop 25.0", "GIMP 2.10"}

\* 'iphone' / 'canon' / 'nikon' in model_str.lower(), for the camera models
\* the model feeds in
TypicalCameras == {"Canon EOS 5D", "iPhone 14"}

_analyze_metadata(i) ==
    LET x == i.exif
        exif_part ==
            IF ~x.present
            THEN <<Msg("NO_EXIF_DATA", "", <<>>)>>
            ELSE Opt(x.software # "" /\ x.software \in EditingSoftware,
                     Msg("EDITING_SOFTWARE", x.software, <<>>))
                 \o Opt(x.model # "" /\ x.model \notin TypicalCameras,
                        Msg("UNUSUAL_CAMERA_MODEL", x.model, <<>>))
                 \o Opt(x.original_time # "" /\ x.modify_time # ""
                            /\ x.original_time # x.modify_time,
                        Msg("METADATA_MODIFIED", "", <<>>))
                 \o Opt(x.gps, Msg("GPS_DATA_PRESENT", "", <<>>))
    IN  exif_part
        \o Opt(i.format \notin CommonFormats, Msg("UNUSUAL_FORMAT", i.format, <<>>))

(***************************************************************************)
(* _interpret_ela_with_context                                             *)
(***************************************************************************)
WebPaths == {"https://cdn.example/a.jpg", "http://cdn.example/a.jpg"}

small_image_pixels == 1000000

ela_boost_extreme == 12
ela_boost_low == 1
ela_boost_high == 6

\* an interpretation that relaxes very_low only
_interpret_ela_with_context_LowKept(th, path, size, ela10) ==
    LET t == th.ela
        relaxed == path \in WebPaths \/ size[1] * size[2] < small_image_pixels
        \* very_low *= 0.9 ; low *= 0.95 (exact for the shipped band edges)
        very_low == IF relaxed THEN (t.very_low10 * 9) \div 10 ELSE t.very_low10
        low == t.low10
    IN  IF ela10 < very_low
        THEN [level |-> "HIGH_RISK", message |-> "EXTREMELY_LOW_ELA", risk_boost |-> ela_boost_extreme]
        ELSE IF ela10 < low
        THEN [level |-> "LOW_RISK", message |-> "LOW_ELA", risk_boost |-> ela_boost_low]
        ELSE IF ela10 > t.very_high10
        THEN [level |-> "HIGH_RISK", message |-> "VERY_HIGH_ELA", risk_boost |-> ela_boost_extreme]
        ELSE IF ela10 > t.high10
        THEN [level |-> "MEDIUM_RISK", message |-> "HIGH_ELA_VARIANCE", risk_boost |-> ela_boost_high]
        ELSE [level |-> "NORMAL", message |-> "Normal compression pattern", risk_boost |-> 0]

_interpret_ela_with_context(th, path, size, ela10) ==
    LET t == th.ela
        relaxed == path \in WebPaths \/ size[1] * size[2] < small_image_pixels
        \* very_low *= 0.9 ; low *= 0.95 (exact for the shipped band edges)
        very_low == IF relaxed THEN (t.very_low10 * 9) \div 10 ELSE t.very_low10
        low == IF relaxed THEN (t.low10 * 95) \div 100 ELSE t.low10
    IN  IF ela10 < very_low
        THEN [level |-> "HIGH_RISK", message |-> "EXTREMELY_LOW_ELA", risk_boost |-> ela_boost_extreme]
        ELSE IF ela10 < low
        THEN [level |-> "LOW_RISK", message |-> "LOW_ELA", risk_boost |-> ela_boost_low]
        ELSE IF ela10 > t.very_high10
        THEN [level |-> "HIGH_RISK", message |-> "VERY_HIGH_ELA", risk_boost |-> ela_boost_extreme]
        ELSE IF ela10 > t.high10
        THEN [level |-> "MEDIUM_RISK", message |-> "HIGH_ELA_VARIANCE", risk_boost |-> ela_boost_high]
        ELSE [level |-> "NORMAL", message |-> "Normal compression pattern", risk_boost |-> 0]

\* self.thresholds after a call that relaxes the band edges in place
ThresholdsAfterInterpretation_InPlace(th, path, size) ==
    IF path \in WebPaths \/ size[1] * size[2] < small_image_pixels
    THEN [th EXCEPT !.ela.very_low10 = (@ * 9) \div 10, !.ela.low10 = (@ * 95) \div 100]
    ELSE th

\* self.thresholds after _interpret_ela_with_context: very_low, low, high and
\* very_high are locals read with t.get, and the relaxing multiplies the locals
ThresholdsAfterInterpretation(th, path, size) == th

(***************************************************************************)
(* _analyze_quantization_tables                                            *)
(***************************************************************************)
quant_avg_high10 == 400
quant_var_low10 == 200
quant_avg_moderate10 == 200

_analyze_quantization_tables(q) ==
    IF ~q.present THEN <<>>
    ELSE IF q.avg10 > quant_avg_high10
    THEN <<Msg("HIGH_QUANTIZATION", "", <<q.avg10, q.var10>>)>>
    ELSE IF q.var10 < quant_var_low10 /\ q.avg10 > quant_avg_moderate10
    THEN <<Msg("UNIFORM_QUANTIZATION_LOW_VAR", "", <<q.avg10, q.var10>>)>>
    ELSE <<>>

(***************************************************************************)
(* _analyze_pixel_anomalies: the anomaly list and the dictionary after it. *)
(* The error-map pass (_perform_ela) is part of the action AnalyzePixel.   *)
(***************************************************************************)
PixelAnomalies(th, path, i) ==
    LET ela_risk == _interpret_ela_with_context(th, path, i.size, i.ela10)
    IN  Opt(ela_risk.level # "NORMAL", Msg(ela_risk.message, "", <<>>))
        \o Opt(i.noise100 > th.noise_ratio_max100,
               Msg("NOISE_INCONSISTENCY", "", <<i.noise100>>))
        \o Opt(i.color_corr100 < th.color_corr_low100,
               Msg("COLOR_CHANNEL_LOW_CORR", "", <<i.color_corr100>>))
        \o Opt(i.edge_diff10 > th.edge_consistency_diff10,
               Msg("EDGE_CONSISTENCY", "", <<>>))
        \o _analyze_quantization_tables(i.qtable)

_analyze_pixel_anomalies(res, th, path, i) ==
    Put(Put(Put(Put(Put(res,
        "ela_variance", i.ela10),
        "ela_interpretation", _interpret_ela_with_context(th, path, i.size, i.ela10)),
        "noise_ratio", i.noise100),
        "color_channel_corr", i.color_corr100),
        "pixel_anomalies", PixelAnomalies(th, path, i))

(***************************************************************************)
(* _deep_forensic_inspection and its detectors                             *)
(***************************************************************************)
fft_max_dim == 512

\* _detect_resampling_fft resizes to (int(w*scale), int(h*scale)) when the
\* longer side exceeds max_dim; a side that truncates to 0 makes the resize
\* (and the transform) raise.
FftRaises(size) ==
    LET long == Max(size[1], size[2])
        short == Min(size[1], size[2])
    IN  long > fft_max_dim /\ (short * fft_max_dim) \div long = 0

_detect_resampling_fft(th, i) == i.fft_ratio10 > th.resampling_fft_peak_ratio10

median_mean_diff10 == 10

_detect_median_filter(i) == i.median_diff10 < median_mean_diff10

\* _analyze_noise_patterns returns True when the noise is consistent
_analyze_noise_patterns(th, i) == i.noise100 < th.noise_ratio_max100

compression_artifact_var == 1000

_analyze_compression_artifacts(i) == i.ela_band_var > compression_artifact_var

\* _analyze_color_temperature: abs(rs / max(gs, 1e-5) - 1.0) > 0.2 over the
\* channel means rs, gs, bs, which the model keeps in millionths (0 .. 255000000)
mean_floor6 == 10

RatioOff(a, b) ==
    LET d == Max(b, mean_floor6)
    IN  5 * a > 6 * d \/ 5 * a < 4 * d

_analyze_color_temperature(i) ==
    RatioOff(i.means[1], i.means[2]) \/ RatioOff(i.means[1], i.means[3])

_deep_forensic_inspection(th, i) ==
    Opt(i.clone_pairs > 0, Msg("CLONE_DETECTED", "", <<i.clone_pairs>>))
    \o Opt(_detect_resampling_fft(th, i), Msg("RESAMPLING_DETECTED", "", <<>>))
    \o Opt(_detect_median_filter(i), Msg("MEDIAN_FILTER_DETECTED", "", <<>>))
    \o Opt(~_analyze_noise_patterns(th, i), Msg("NOISE_INCONSISTENCY", "", <<>>))
    \o Opt(_analyze_compression_artifacts(i), Msg("COMPRESSION_ANOMALIES", "", <<>>))
    \o Opt(_analyze_color_temperature(i), Msg("COLOR_TEMPERATURE_INCONSISTENCY", "", <<>>))

(***************************************************************************)
(* _calculate_risk_score, first phase: the raw sum and its clamp           *)
(***************************************************************************)
\* a weighting without the editing-software branch
MetadataWeight_NoEditingBranch(a) ==
    IF Contains(a, "NO_EXIF_DATA") THEN 2
    ELSE IF Contains(a, "UNUSUAL_FORMAT") THEN 3
    ELSE 5

MetadataWeight(a) ==
    IF Contains(a, "NO_EXIF_DATA") THEN 2
    ELSE IF Contains(a, "UNUSUAL_FORMAT") THEN 3
    ELSE IF Contains(a, "EDITING_SOFTWARE") THEN 12
    ELSE 5

PixelWeight(a) == 6

ForensicWeight(a) ==
    IF Contains(a, "CLONE") THEN 20
    ELSE IF Contains(a, "NOISE") THEN 10
    ELSE IF Contains(a, "COMPRESSION") THEN 6
    ELSE IF Contains(a, "COLOR_TEMPERATURE") THEN 10
    ELSE IF Contains(a, "RESAMPLING") THEN 15
    ELSE IF Contains(a, "MEDIAN_FILTER") THEN 12
    ELSE 8

\* a bonus for the low extreme only
ExtremityBonus_LowOnly(ela10) == IF ela10 < 150 THEN 5 ELSE 0

\* if ela_var < 15 or ela_var > 1000: score += 5
ExtremityBonus(ela10) == IF ela10 < 150 \/ ela10 > 10000 THEN 5 ELSE 0

RawSum(res) ==
    LET ela_interp == Get(res, "ela_interpretation", NoValue)
        metadata == Get(res, "metadata_anomalies", <<>>)
        pixel == Get(res, "pixel_anomalies", <<>>)
        forensic == Get(res, "forensic_indicators", <<>>)
    IN  SumSeq([k \in DOMAIN metadata |-> MetadataWeight(metadata[k])])
        + SumSeq([k \in DOMAIN pixel |-> PixelWeight(pixel[k])])
        + SumSeq([k \in DOMAIN forensic |-> ForensicWeight(forensic[k])])
        + (IF ela_interp # NoValue THEN ela_interp.risk_boost ELSE 0)
        + ExtremityBonus(Get(res, "ela_variance", 0))

\* a raw phase that forgets the clamp
ClampRaw_Unclamped(score) == score

\* a raw phase that wraps around at the top of the scale
ClampRaw_Wrapping(score) == score % 101

\* self.results['risk_score'] = min(100, score)
ClampRaw(score) == Min(100, score)

\* a raw phase that hands over to normalization before the extremity bonus
RawPhase_BeforeBonus(res) ==
    Put(res, "risk_score",
        ClampRaw(RawSum(res) - ExtremityBonus(Get(res, "ela_variance", 0))))

RawPhase(res) == Put(res, "risk_score", ClampRaw(RawSum(res)))

(***************************************************************************)
(* _detect_compression_profile                                             *)
(***************************************************************************)
\* a table that lists the camera profile first
CompressionProfiles_CameraFirst ==
    << [profile |-> "original_camera", low10 |-> 1500, high10 |-> 4500,
        typical_size |-> <<4000, 3000>>, message |-> "Original Camera JPEG"],
       [profile |-> "whatsapp_low", low10 |-> 100, high10 |-> 500,
        typical_size |-> <<1280, 1280>>, message |-> "WhatsApp/Low Quality Compression"],
       [profile |-> "instagram", low10 |-> 800, high10 |-> 1800,
        typical_size |-> <<1080, 1080>>, message |-> "Instagram Compression"],
       [profile |-> "facebook", low10 |-> 1200, high10 |-> 2800,
        typical_size |-> <<2048, 2048>>, message |-> "Facebook Compression"],
       [profile |-> "twitter", low10 |-> 600, high10 |-> 1600,
        typical_size |-> <<1200, 675>>, message |-> "Twitter Compression"] >>

CompressionProfiles ==
    << [profile |-> "whatsapp_low", low10 |-> 100, high10 |-> 500,
        typical_size |-> <<1280, 1280>>, message |-> "WhatsApp/Low Quality Compression"],
       [profile |-> "instagram", low10 |-> 800, high10 |-> 1800,
        typical_size |-> <<1080, 1080>>, message |-> "Instagram Compression"],
       [profile |-> "facebook", low10 |-> 1200, high10 |-> 2800,
        typical_size |-> <<2048, 2048>>, message |-> "Facebook Compression"],
       [profile |-> "twitter", low10 |-> 600, high10 |-> 1600,
        typical_size |-> <<1200, 675>>, message |-> "Twitter Compression"],
       [profile |-> "original_camera", low10 |-> 1500, high10 |-> 4500,
        typical_size |-> <<4000, 3000>>, message |-> "Original Camera JPEG"] >>

\* a size test that is content with one axis
SizeMatch_EitherAxis(size, typical) ==
    \/ 2 * Abs(size[1] - typical[1]) <= typical[1]
    \/ 2 * Abs(size[2] - typical[2]) <= typical[2]

\* abs(img_size[k] - typical) <= typical * 0.5, on both axes
SizeMatch(size, typical) ==
    /\ 2 * Abs(size[1] - typical[1]) <= typical[1]
    /\ 2 * Abs(size[2] - typical[2]) <= typical[2]

ProfileMatch(p, size) ==
    [profile |-> p.profile, message |-> p.message,
     confidence |-> IF SizeMatch(size, p.typical_size) THEN "HIGH" ELSE "MEDIUM",
     size_match |-> SizeMatch(size, p.typical_size)]

RECURSIVE MatchFrom(_, _, _)
MatchFrom(k, size, ela10) ==
    IF k > Len(CompressionProfiles) THEN <<>>
    ELSE LET p == CompressionProfiles[k]
         IN  Opt(p.low10 <= ela10 /\ ela10 <= p.high10, ProfileMatch(p, size))
             \o MatchFrom(k + 1, size, ela10)

_detect_compression_profile(size, ela10) == MatchFrom(1, size, ela10)

(***************************************************************************)
(* _apply_compression_normalization                                        *)
(***************************************************************************)
SocialMediaProfiles == {"whatsapp_low", "instagram", "facebook", "twitter"}

\* a tag list that leaves out the median-filter indicator
EditTags_WithoutMedianFilter ==
    {"CLONE", "COLOR_TEMPERATURE", "NOISE_INCONSISTENCY", "RESAMPLING_DETECTED"}

EditTags ==
    {"CLONE", "COLOR_TEMPERATURE", "NOISE_INCONSISTENCY", "RESAMPLING_DETECTED",
     "MEDIAN_FILTER_DETECTED"}

LikelySocialMedia(profiles) ==
    \E k \in DOMAIN profiles : profiles[k].profile \in SocialMediaProfiles

\* any(tag in " ".join(forensic_indicators) for tag in [...]); no tag holds a
\* space, so a tag occurs in the joined string iff it occurs in one indicator
HasEditIndicators(res) ==
    LET forensic == Get(res, "forensic_indicators", <<>>)
    IN  \E k \in DOMAIN forensic : \E tag \in EditTags : Contains(forensic[k], tag)

\* a lowest tier that discounts nothing
Reduction_NoDiscount(ela10) ==
    IF ela10 < 1000 THEN 100 ELSE IF ela10 < 2000 THEN 50 ELSE 65

\* the discount multiplier, in percent
Reduction(ela10) ==
    IF ela10 < 1000 THEN 40 ELSE IF ela10 < 2000 THEN 50 ELSE 65

\* a discount that adds the percentage instead of keeping it
Discount_Markup(score, percent) == Max(0, Min(100, (score * (100 + percent)) \div 100))

\* int(score * reduction), then max(0, min(100, .)); for 0 <= score <= 150 the
\* float product truncates to the integer quotient below
Discount(score, percent) == Max(0, Min(100, (score * percent) \div 100))

NormalizationApplies(res, image) ==
    /\ LikelySocialMedia(_detect_compression_profile(image.size, Get(res, "ela_variance", 0)))
    /\ ~HasEditIndicators(res)

NoAdjustment == [text |-> "No compression normalization applied."]

_apply_compression_normalization(res, image) ==
    LET ela_var == Get(res, "ela_variance", 0)
        score == Get(res, "risk_score", 0)
        profiles == _detect_compression_profile(image.size, ela_var)
    IN  IF NormalizationApplies(res, image)
        THEN LET new_score == Discount(score, Reduction(ela_var))
                 chosen == profiles[1]
             IN  Put(Put(Put(res,
                     "risk_score", new_score),
                     "compression_adjustment",
                        [text |-> "Adjusted to", score |-> new_score,
                         percent |-> Reduction(ela_var), message |-> chosen.message]),
                     "likely_source", chosen.profile)
        ELSE SetDefault(Put(res, "compression_adjustment", NoAdjustment),
                        "likely_source", "unknown")

(***************************************************************************)
(* Inputs.  An input is what the user points the analyzer at: a path or    *)
(* URL, whether it decodes, and for a decodable image the values the       *)
(* library calls return for it.                                            *)
(***************************************************************************)
ExifNone ==
    [present |-> FALSE, software |-> "", model |-> "",
     original_time |-> "", modify_time |-> "", gps |-> FALSE]

ExifClean ==
    [present |-> TRUE, software |-> "", model |-> "Canon EOS 5D",
     original_time |-> "2024:01:01 10:00:00", modify_time |-> "2024:01:01 10:00:00",
     gps |-> FALSE]

ExifEdited ==
    [present |-> TRUE, software |-> "Adobe Photoshop 25.0", model |-> "Pixel 7",
     original_time |-> "2024:01:01 10:00:00", modify_time |-> "2024:02:02 12:00:00",
     gps |-> TRUE]

\* EXIF present, with neither Make (271) nor Model (272)
ExifBare ==
    [present |-> TRUE, software |-> "", model |-> "",
     original_time |-> "2024:01:01 10:00:00", modify_time |-> "2024:01:01 10:00:00",
     gps |-> FALSE]

\* EXIF whose Model string spells a scoring keyword
ExifSpoofed ==
    [present |-> TRUE, software |-> "", model |-> "NO_EXIF_DATA-Cam",
     original_time |-> "2024:01:01 10:00:00", modify_time |-> "2024:01:01 10:00:00",
     gps |-> FALSE]

NoQTable == [present |-> FALSE, avg10 |-> 0, var10 |-> 0]

HeavyQTable == [present |-> TRUE, avg10 |-> 550, var10 |-> 9000]

UniformQTable == [present |-> TRUE, avg10 |-> 250, var10 |-> 100]

FilePath == "/data/a.jpg"

LargeSize == <<1280, 1280>>

SmallSize == <<800, 800>>

SliverSize == <<1, 1000>>

Neutral == <<100000000, 100000000, 100000000>>

RedShift == <<130000000, 100000000, 100000000>>

\* error-map variances (tenths): below every band, in whatsapp_low and below
\* the extremity cut-off, in whatsapp_low, in instagram/twitter, in four
\* profiles at once, in facebook/original_camera, in no profile, above very_high
ElaValues == {50, 120, 450, 900, 1500, 2500, 7000, 12000}

\* a variance between the relaxed very_low edge (13.5) and the shipped one (15)
ela_between_edges == 140

\* the wide input set: every combination of the detectors' verdicts
ScoringImages ==
    [decodable : {TRUE}, path : {FilePath}, format : {"JPEG", "BMP"},
     exif : {ExifNone, ExifClean, ExifEdited}, size : {LargeSize, SmallSize},
     ela10 : ElaValues, ela_band_var : {200, 1500}, noise100 : {150, 500},
     color_corr100 : {95, 60}, edge_diff10 : {50}, qtable : {NoQTable},
     clone_pairs : {0, 3}, fft_ratio10 : {40, 120}, median_diff10 : {30, 5},
     means : {Neutral, RedShift}]

\* the corners: web images, slivers, the heaviest pixel findings
CornerImages ==
    [decodable : {TRUE}, path : {FilePath, "https://cdn.example/a.jpg"}, format : {"BMP"},
     exif : {ExifEdited, ExifBare, ExifSpoofed}, size : {LargeSize, SmallSize, SliverSize},
     ela10 : ElaValues \cup {ela_between_edges}, ela_band_var : {1500}, noise100 : {300, 500},
     color_corr100 : {60}, edge_diff10 : {300}, qtable : {HeavyQTable, UniformQTable},
     clone_pairs : {0, 10}, fft_ratio10 : {40, 120}, median_diff10 : {5},
     means : {RedShift}]

Undecodable ==
    [decodable : {FALSE}, path : {FilePath, "https://cdn.example/a.jpg"}, format : {"JPEG"},
     exif : {ExifNone}, size : {LargeSize}, ela10 : {0}, ela_band_var : {0},
     noise100 : {0}, color_corr100 : {0}, edge_diff10 : {0}, qtable : {NoQTable},
     clone_pairs : {0}, fft_ratio10 : {0}, median_diff10 : {0}, means : {Neutral}]

Images == ScoringImages \cup CornerImages \cup Undecodable

\* the inputs of the runs that analyse several images on one analyzer
Catalogue ==
    [decodable : {TRUE}, path : {FilePath}, format : {"JPEG"},
     exif : {ExifClean, ExifEdited}, size : {LargeSize},
     ela10 : {450, 1500, 7000}, ela_band_var : {200}, noise100 : {150},
     color_corr100 : {95}, edge_diff10 : {50}, qtable : {NoQTable},
     clone_pairs : {0, 3}, fft_ratio10 : {40}, median_diff10 : {30},
     means : {Neutral}]
    \cup
    [decodable : {TRUE}, path : {"https://cdn.example/a.jpg"}, format : {"BMP"},
     exif : {ExifEdited}, size : {SmallSize, SliverSize},
     ela10 : {12000}, ela_band_var : {1500}, noise100 : {500},
     color_corr100 : {60}, edge_diff10 : {300}, qtable : {HeavyQTable},
     clone_pairs : {10}, fft_ratio10 : {120}, median_diff10 : {5},
     means : {RedShift}]
    \cup
    {u \in Undecodable : u.path = FilePath}

(***************************************************************************)
(* _perform_ela: what happens to _temp_ela.jpg.  The calls into the        *)
(* filesystem and the codec can fail, so each call ends in one of:         *)
(*   ok                the file is written, read back, differenced, removed*)
(*   remove_fails      os.remove raises OSError, which is swallowed        *)
(*   save_raises       img.save raises before the file exists              *)
(*   save_raises_late  img.save raises with the file already created       *)
(*   open_raises       Image.open(temp_path) raises                        *)
(*   difference_raises ImageChops.difference / the enhancer raises         *)
(***************************************************************************)
ElaOutcomes ==
    {"ok", "remove_fails", "save_raises", "save_raises_late", "open_raises",
     "difference_raises"}

ElaRaises(outcome) == outcome \notin {"ok", "remove_fails"}

_perform_ela(outcome, temp) ==
    CASE outcome = "ok" -> "absent"
      [] outcome = "save_raises" -> temp
      [] OTHER -> "present"

(***************************************************************************)
(* analyze_image's two ways out, and generate_report                       *)
(***************************************************************************)
\* return self.results: the caller gets the analyzer's own dictionary
ResultsRef == [ref |-> "self.results"]

\* an except branch that hands back the dictionary instead of an error value
ErrorReturn_Results(cause) == ResultsRef

\* except Exception as e: return {'error': f'Analysis failed: {str(e)}'}
ErrorReturn(cause) == [error |-> <<"Analysis failed: ", cause>>]

\* the dictionary a returned value denotes, given the analyzer's dictionary
Deref(value, res) == IF value = ResultsRef THEN res ELSE value

RiskLevel(score) == IF score > 70 THEN "HIGH" ELSE IF score > 35 THEN "MEDIUM" ELSE "LOW"

generate_report(value, res, path) ==
    LET a == Deref(value, res)
    IN  IF "error" \in DOMAIN a
        THEN [status |-> "failed",
              error_message |-> a["error"],
              analysis_timestamp |-> "now",
              image |-> path]
        ELSE [status |-> "success",
              image |-> path,
              analysis_date |-> res["analysis_timestamp"],
              summary |->
                  [risk_level |-> RiskLevel(Get(a, "risk_score", 0)),
                   risk_score |-> Get(a, "risk_score", 0),
                   total_anomalies |->
                       Len(Get(a, "metadata_anomalies", <<>>))
                       + Len(Get(a, "pixel_anomalies", <<>>))
                       + Len(Get(a, "forensic_indicators", <<>>)),
                   likely_source |-> Get(a, "likely_source", "unknown"),
                   compression_adjustment |-> Get(a, "compression_adjustment", [text |-> ""])],
              detailed_findings |-> value]

\* if img.format not in ["JPEG", "PNG", "TIFF"]: img = img.convert("RGB")
Convert(i) == IF i.format \notin CommonFormats THEN [i EXCEPT !.format = "None"] ELSE i

\* img.copy(): the copy carries no container format
Copy(i) == [i EXCEPT !.format = "None"]

(***************************************************************************)
(* The state after construction                                            *)
(***************************************************************************)
\* PILForensicAnalyzer(calibration), and nothing called yet
Constructed(calibration) ==
    /\ results = InitialResults
    /\ thresholds = DefaultThresholds
    /\ calibration_summary = (IF calibration = NoValue THEN NoCalibration ELSE calibration)
    /\ image_path = ""
    /\ original_image = NoImage
    /\ pc = "idle"
    /\ img = NoImage
    /\ temp_file = "absent"
    /\ analysis = NoValue
    /\ report = NoValue
    /\ held = FALSE
    /\ invocations = 0

\* no side-by-side error-map pass, no isolated call of a helper
Quiet ==
    /\ passes = <<>>
    /\ temp_content = NoValue
    /\ matcher = NoValue
    /\ clone = NoValue
    /\ Apart

\* analyzer = PILForensicAnalyzer(), as the command line constructs it
Init == Constructed(NoValue) /\ Quiet

Idle == pc \in {"idle", "returned", "failed"}

\* the except branch of analyze_image followed by generate_report's failure
\* branch; res is the dictionary as the failing step left it
Fail(cause, res, path) ==
    /\ analysis' = ErrorReturn(cause)
    /\ report' = generate_report(ErrorReturn(cause), res, path)
    /\ pc' = "failed"
    /\ img' = NoImage

(***************************************************************************)
(* generate_report -> analyze_image, up to the image being open            *)
(***************************************************************************)
Invoke(inputs, limit) ==
    /\ Idle
    /\ invocations < limit
    /\ \E input \in inputs :
        /\ image_path' = input.path
        /\ invocations' = invocations + 1
        /\ IF input.decodable
           THEN /\ img' = Convert(input)
                /\ original_image' = Copy(Convert(input))
                /\ pc' = "metadata"
                /\ UNCHANGED <<analysis, report>>
           ELSE /\ Fail("cannot identify image file", results, input.path)
                /\ UNCHANGED original_image
    /\ UNCHANGED aside
    /\ UNCHANGED <<results, thresholds, temp_file, held>>

RunMetadata ==
    /\ pc = "metadata"
    /\ results' = Put(results, "metadata_anomalies", _analyze_metadata(img))
    /\ pc' = "pixel"
    /\ UNCHANGED aside
    /\ UNCHANGED <<thresholds, image_path, original_image, img, temp_file, analysis,
                   report, held, invocations>>

RunPixel ==
    /\ pc = "pixel"
    /\ \E outcome \in ElaOutcomes :
        /\ temp_file' = _perform_ela(outcome, temp_file)
        /\ IF ElaRaises(outcome)
           THEN /\ Fail(outcome, results, image_path)
                /\ UNCHANGED <<results, thresholds>>
           ELSE /\ results' = _analyze_pixel_anomalies(results, thresholds, image_path, img)
                /\ thresholds' = ThresholdsAfterInterpretation(thresholds, image_path, img.size)
                /\ pc' = "deep"
                /\ UNCHANGED <<img, analysis, report>>
    /\ UNCHANGED aside
    /\ UNCHANGED <<image_path, original_image, held, invocations>>

RunDeep ==
    /\ pc = "deep"
    /\ IF FftRaises(img.size)
       THEN /\ Fail("height and width must be > 0", results, image_path)
            /\ UNCHANGED <<results, temp_file>>
       ELSE \E outcome \in ElaOutcomes :
            /\ temp_file' = _perform_ela(outcome, temp_file)
            /\ IF ElaRaises(outcome)
               THEN /\ Fail(outcome, results, image_path)
                    /\ UNCHANGED results
               ELSE /\ results' = Put(results, "forensic_indicators",
                                      _deep_forensic_inspection(thresholds, img))
                    /\ pc' = "score"
                    /\ UNCHANGED <<img, analysis, report>>
    /\ UNCHANGED aside
    /\ UNCHANGED <<thresholds, image_path, original_image, held, invocations>>

RunRawSum ==
    /\ pc = "score"
    /\ results' = RawPhase(results)
    /\ pc' = "normalize"
    /\ UNCHANGED aside
    /\ UNCHANGED <<thresholds, image_path, original_image, img, temp_file, analysis,
                   report, held, invocations>>

RunNormalization ==
    /\ pc = "normalize"
    /\ results' =
         IF original_image # NoImage
         THEN _apply_compression_normalization(results, original_image)
         ELSE SetDefault(Put(results, "compression_adjustment",
                             [text |-> "No original image available for compression normalization."]),
                         "likely_source", "unknown")
    /\ pc' = "return"
    /\ UNCHANGED aside
    /\ UNCHANGED <<thresholds, image_path, original_image, img, temp_file, analysis,
                   report, held, invocations>>

ReturnResults ==
    /\ pc = "return"
    /\ analysis' = ResultsRef
    /\ report' = generate_report(ResultsRef, results, image_path)
    /\ pc' = "returned"
    /\ img' = NoImage
    /\ held' = TRUE
    /\ UNCHANGED aside
    /\ UNCHANGED <<results, thresholds, image_path, original_image, temp_file, invocations>>

Pipeline ==
    RunMetadata \/ RunPixel \/ RunDeep \/ RunRawSum \/ RunNormalization \/ ReturnResults

\* one analyzer analysing several inputs, one after the other
Next == Invoke(Catalogue, MaxInvocations) \/ Pipeline

Spec == Init /\ [][Next]_vars

\* a freshly constructed analyzer analysing one input from the wide set
NextSurvey == Invoke(Images, 1) \/ Pipeline

SpecSurvey == Init /\ [][NextSurvey]_vars

(***************************************************************************)
(* _perform_ela step by step, for calls that run side by side in one       *)
(* working directory: the call made by _analyze_pixel_anomalies and the    *)
(* call made by _analyze_compression_artifacts, on one photo or on two.    *)
(* Every call uses the path "_temp_ela.jpg".  A call saves its re-encoding *)
(* there, opens the path, reads the pixels when the difference is taken    *)
(* (Image.open is lazy) and removes the path.                              *)
(***************************************************************************)
Tasks == {"pixel_analyzer", "deep_inspector"}

Photos == {"a.jpg", "b.jpg"}

\* img.save(temp_path, "JPEG", quality=quality): the bytes written
Reencoding(photo) == [of |-> photo, quality |-> 90]

\* an open file object: it follows the path's file until the path is removed,
\* and keeps the bytes the file had then
LiveHandle == [file |-> "linked"]

Unlinked(content) == [file |-> "unlinked", content |-> content]

NewPass(photo) == [photo |-> photo, at |-> "save", handle |-> NoValue, read |-> NoValue]

analyzer == <<results, thresholds, image_path, original_image, pc, img, analysis,
              report, held, invocations, calibration_summary>>

Save(t) ==
    /\ passes[t].at = "save"
    /\ temp_content' = Reencoding(passes[t].photo)
    /\ temp_file' = "present"
    /\ passes' = [passes EXCEPT ![t].at = "open"]
    /\ UNCHANGED <<analyzer, services, matcher, clone>>

\* Image.open(temp_path): FileNotFoundError when the path is gone
Open(t) ==
    /\ passes[t].at = "open"
    /\ passes' = IF temp_content = NoValue
                 THEN [passes EXCEPT ![t].at = "raised"]
                 ELSE [passes EXCEPT ![t].at = "difference", ![t].handle = LiveHandle]
    /\ UNCHANGED <<analyzer, services, temp_content, temp_file, matcher, clone>>

\* ImageChops.difference(img, recompressed) loads the pixels behind the handle
Difference(t) ==
    /\ passes[t].at = "difference"
    /\ passes' = [passes EXCEPT
                    ![t].at = "remove",
                    ![t].read = IF passes[t].handle = LiveHandle
                                THEN temp_content
                                ELSE passes[t].handle.content,
                    ![t].handle = NoValue]
    /\ UNCHANGED <<analyzer, services, temp_content, temp_file, matcher, clone>>

\* os.remove(temp_path) under except OSError: the path is unlinked, or the
\* call fails (path already gone; file held open where that forbids removal)
Remove(t) ==
    /\ passes[t].at = "remove"
    /\ \/ /\ temp_content # NoValue
          /\ temp_content' = NoValue
          /\ temp_file' = "absent"
          /\ passes' = [u \in DOMAIN passes |->
                          IF u = t THEN [passes[u] EXCEPT !.at = "done"]
                          ELSE IF passes[u].handle = LiveHandle
                               THEN [passes[u] EXCEPT !.handle = Unlinked(temp_content)]
                               ELSE passes[u]]
       \/ /\ \/ temp_content = NoValue
             \/ \E u \in DOMAIN passes : passes[u].handle = LiveHandle
          /\ passes' = [passes EXCEPT ![t].at = "done"]
          /\ UNCHANGED <<temp_content, temp_file>>
    /\ UNCHANGED <<analyzer, services, matcher, clone>>

InitSideBySide ==
    /\ Constructed(NoValue)
    /\ passes \in [Tasks -> {NewPass(photo) : photo \in Photos}]
    /\ temp_content = NoValue
    /\ matcher = NoValue
    /\ clone = NoValue
    /\ Apart

NextSideBySide ==
    \E t \in Tasks : Save(t) \/ Open(t) \/ Difference(t) \/ Remove(t)

SpecSideBySide == InitSideBySide /\ [][NextSideBySide]_vars

(***************************************************************************)
(* An analyzer constructed with a calibration profile: a dictionary that   *)
(* supplies some of the threshold entries.                                 *)
(***************************************************************************)
Calibrations ==
    {[noise_ratio_max100 |-> 600, color_corr_low100 |-> 50],
     [ela |-> [very_low10 |-> 100, low10 |-> 500, high10 |-> 5000, very_high10 |-> 8000]]}

InitCalibrated == (\E calibration \in Calibrations : Constructed(calibration)) /\ Quiet

SpecCalibrated == InitCalibrated /\ [][Next]_vars

(***************************************************************************)
(* _detect_compression_profile called on its own, over variances at and    *)
(* around every band edge and sizes at and around every 50% limit.         *)
(***************************************************************************)
MatcherVariances ==
    {0, 99, 100, 101, 300, 499, 500, 501, 599, 600, 799, 800, 1199, 1200, 1499, 1500,
     1600, 1601, 1800, 1801, 2800, 2801, 4500, 4501, 9000}

MatcherSizes ==
    {<<1280, 1280>>, <<640, 640>>, <<639, 1280>>, <<1280, 1921>>, <<1920, 1920>>,
     <<1080, 1080>>, <<540, 1620>>, <<1621, 539>>, <<2048, 2048>>, <<1024, 3072>>,
     <<3073, 1023>>, <<1200, 675>>, <<1200, 337>>, <<1200, 338>>, <<1800, 1012>>,
     <<600, 1013>>, <<4000, 3000>>, <<2000, 1500>>, <<1999, 4500>>, <<6000, 1499>>,
     <<1, 1000>>, <<800, 800>>}

InitMatcher ==
    /\ Constructed(NoValue)
    /\ passes = <<>>
    /\ temp_content = NoValue
    /\ clone = NoValue
    /\ Apart
    /\ matcher \in [size : MatcherSizes, ela10 : MatcherVariances, at : {"call"},
                   matches : {<<>>}]

DetectCompressionProfile ==
    /\ matcher # NoValue
    /\ matcher.at = "call"
    /\ matcher' = [matcher EXCEPT
                      !.at = "returned",
                      !.matches = _detect_compression_profile(matcher.size, matcher.ela10)]
    /\ UNCHANGED <<analyzer, services, temp_file, passes, temp_content, clone>>

NextMatcher == DetectCompressionProfile

SpecMatcher == InitMatcher /\ [][NextMatcher]_vars

(***************************************************************************)
(* _detect_clone_regions, one examined block per step.  An image is seen   *)
(* through the content of its blocks on the block grid: a uniform image    *)
(* has one content everywhere; otherwise the blocks at the pasted origins  *)
(* hold one identical content and every other block a content of its own.  *)
(***************************************************************************)
MaxPasted == 3

CloneSizes == {<<128, 32>>, <<160, 128>>, <<170, 100>>}

UniformSizes == {<<w, h>> : w \in {32, 96, 128, 160, 170}, h \in {32, 128, 130}}

\* the origins of the whole blocks of the partition into blocks of side bs
GridOrigins(size, bs) ==
    {<<bs * k, bs * l>> : k \in 0..((size[1] \div bs) - 1), l \in 0..((size[2] \div bs) - 1)}

\* the sets of at most n origins
RECURSIVE UpTo(_, _)
UpTo(origins, n) ==
    IF n = 0 THEN {{}}
    ELSE UNION {{p \cup {o} : o \in origins} : p \in UpTo(origins, n - 1)}

CloneImages ==
    UNION {{[size |-> size, uniform |-> FALSE, pasted |-> pasted] :
               pasted \in {p \in UpTo(GridOrigins(size, clone_block_size), MaxPasted) :
                               Cardinality(p) # 1}} :
           size \in CloneSizes}
    \cup {[size |-> size, uniform |-> TRUE, pasted |-> {}] : size \in UniformSizes}

\* img.crop((x, y, min(x + block_size, width), min(y + block_size, height)))
Crop(image, origin) ==
    IF image.uniform THEN [texture |-> "flat", seed |-> <<0, 0>>]
    ELSE IF origin \in image.pasted THEN [texture |-> "pasted", seed |-> <<0, 0>>]
    ELSE [texture |-> "own", seed |-> origin]

\* md5 of the 8x8 grayscale thumbnail: equal blocks give equal digests; the
\* textures above are told apart by their thumbnails
phash(block) == [md5_of |-> block]

\* range(0, stop, step) as a sequence, for stop >= 1
Range(stop, step) == [k \in 1..((stop + step - 1) \div step) |-> (k - 1) * step]

\* the block origins in loop order: y outermost, x innermost
ScanOrder(size, bs) ==
    LET step == Max(1, bs)
        ys == Range(Max(1, size[2] - bs), step)
        xs == Range(Max(1, size[1] - bs), step)
    IN  [n \in 1..(Len(ys) * Len(xs)) |->
            <<xs[((n - 1) % Len(xs)) + 1], ys[((n - 1) \div Len(xs)) + 1]>>]

\* a distance test that wants each axis beyond the limit
FartherThan_PerAxis(a, b, limit) ==
    Abs(a[1] - b[1]) > limit /\ Abs(a[2] - b[2]) > limit

\* hypot(dx, dy) > limit, for a limit that is not negative
FartherThan(a, b, limit) ==
    (a[1] - b[1]) * (a[1] - b[1]) + (a[2] - b[2]) * (a[2] - b[2]) > limit * limit

\* a loop body that moves the remembered coordinate to the latest block
ExamineBlockFrom_LatestSeen(c, th, origin, h) ==
    IF h \in DOMAIN c.hashes
    THEN [c EXCEPT
            !.similar_blocks =
                IF FartherThan(origin, c.hashes[h],
                               th.clone_block_size * th.clone_distance_min_blocks)
                THEN Append(@, [block1 |-> c.hashes[h], block2 |-> origin])
                ELSE @,
            !.hashes = [@ EXCEPT ![h] = origin]]
    ELSE [c EXCEPT !.hashes = (h :> origin) @@ @]

\* the body of the inner loop, on the locals hashes and similar_blocks
ExamineBlockFrom(c, th, origin, h) ==
    IF h \in DOMAIN c.hashes
    THEN [c EXCEPT
            !.similar_blocks =
                IF FartherThan(origin, c.hashes[h],
                               th.clone_block_size * th.clone_distance_min_blocks)
                THEN Append(@, [block1 |-> c.hashes[h], block2 |-> origin])
                ELSE @]
    ELSE [c EXCEPT !.hashes = (h :> origin) @@ @]

clone_report_cap == 10

InitClone ==
    /\ Constructed(NoValue)
    /\ passes = <<>>
    /\ temp_content = NoValue
    /\ matcher = NoValue
    /\ Apart
    /\ \E image \in CloneImages :
          clone = [image |-> image, at |-> "scan",
                   todo |-> ScanOrder(image.size, thresholds.clone_block_size),
                   examined |-> {}, hashes |-> <<>>, similar_blocks |-> <<>>,
                   clone_regions |-> <<>>, indicators |-> <<>>]

ExamineBlock ==
    /\ clone # NoValue
    /\ clone.at = "scan"
    /\ clone.todo # <<>>
    /\ LET origin == Head(clone.todo)
           seen == ExamineBlockFrom(clone, thresholds, origin, phash(Crop(clone.image, origin)))
       IN  clone' = [seen EXCEPT !.todo = Tail(@), !.examined = @ \cup {origin}]
    /\ UNCHANGED <<analyzer, services, temp_file, passes, temp_content, matcher>>

\* return similar_blocks[:10], and the caller's CLONE_DETECTED
ReturnCloneRegions ==
    /\ clone # NoValue
    /\ clone.at = "scan"
    /\ clone.todo = <<>>
    /\ LET regions == SubSeq(clone.similar_blocks, 1,
                             Min(clone_report_cap, Len(clone.similar_blocks)))
       IN  clone' = [clone EXCEPT
                        !.at = "returned",
                        !.clone_regions = regions,
                        !.indicators = Opt(regions # <<>>,
                                           Msg("CLONE_DETECTED", "", <<Len(regions)>>))]
    /\ UNCHANGED <<analyzer, services, temp_file, passes, temp_content, matcher>>

NextClone == ExamineBlock \/ ReturnCloneRegions

SpecClone == InitClone /\ [][NextClone]_vars

(***************************************************************************)
(* _analyze_color_temperature and _interpret_ela_with_context called on    *)
(* their own, over channel means around the 1e-5 floor and the 20% limits  *)
(* and over variances at and around every band edge.                       *)
(***************************************************************************)
ChannelMeans6 ==
    {0, 5, 8, 9, 10, 12, 13, 79999999, 80000000, 100000000, 120000000, 120000001,
     130000000, 255000000}

InterpretedVariances ==
    {0, 134, 135, 136, 149, 150, 151, 379, 380, 381, 399, 400, 401, 5999, 6000, 6001,
     9999, 10000, 10001, 20000}

InterpretedSizes == {<<1000, 1000>>, <<999, 1000>>, <<1280, 1280>>, <<800, 800>>, <<1, 1000>>}

InterpretedPaths == {FilePath, "https://cdn.example/a.jpg", "http://cdn.example/a.jpg"}

HelperCalls ==
    [fn : {"_analyze_color_temperature"}, at : {"call"},
     means : ChannelMeans6 \X ChannelMeans6 \X ChannelMeans6]
    \cup
    [fn : {"_interpret_ela_with_context"}, at : {"call"},
     path : InterpretedPaths, size : InterpretedSizes, ela10 : InterpretedVariances]

InitHelper ==
    /\ Constructed(NoValue)
    /\ passes = <<>>
    /\ temp_content = NoValue
    /\ matcher = NoValue
    /\ clone = NoValue
    /\ memory = NoValue
    /\ alerts = NoValue
    /\ helper \in HelperCalls

\* if self._analyze_color_temperature(img_rgb): indicators.append(...)
CallColorTemperature ==
    /\ helper.fn = "_analyze_color_temperature"
    /\ helper.at = "call"
    /\ helper' = [fn |-> helper.fn, at |-> "returned", means |-> helper.means,
                  fired |-> _analyze_color_temperature(helper),
                  indicators |-> Opt(_analyze_color_temperature(helper),
                                     Msg("COLOR_TEMPERATURE_INCONSISTENCY", "", <<>>))]
    /\ UNCHANGED <<analyzer, temp_file, passes, temp_content, matcher, clone, memory, alerts>>

CallInterpretEla ==
    /\ helper.fn = "_interpret_ela_with_context"
    /\ helper.at = "call"
    /\ helper' = [fn |-> helper.fn, at |-> "returned", path |-> helper.path,
                  size |-> helper.size, ela10 |-> helper.ela10,
                  ela_risk |-> _interpret_ela_with_context(thresholds, helper.path,
                                                           helper.size, helper.ela10)]
    /\ UNCHANGED <<analyzer, temp_file, passes, temp_content, matcher, clone, memory, alerts>>

NextHelper == CallColorTemperature \/ CallInterpretEla

SpecHelper == InitHelper /\ [][NextHelper]_vars

(***************************************************************************)
(* MemoryBackend (backend/cache/memory_backend.py): the dictionary _cache, *)
(* the clock that time.time() reads, and the calls made on the backend.    *)
(* The methods contain no await, so each call is one step of the event     *)
(* loop; so is one round of the background task _cleanup_expired after its *)
(* sleep.  The model also keeps, per key, the set call that a caller may   *)
(* still rely on (not overwritten, deleted or cleared since), and the      *)
(* return value of the latest call.                                        *)
(***************************************************************************)
MaxTime == 4

CacheKeys == {"k1", "k2"}

CacheValues == {"v1", "v2"}

CacheTtls == {0, 1, 2}

NoEntries == <<>>

\* self._cache = {} ; self._cleanup_task = None
InitMemory ==
    /\ Constructed(NoValue)
    /\ passes = <<>>
    /\ temp_content = NoValue
    /\ matcher = NoValue
    /\ clone = NoValue
    /\ helper = NoValue
    /\ alerts = NoValue
    /\ memory = [_cache |-> NoEntries, _cleanup_task |-> FALSE, now |-> 0,
                 written |-> NoEntries,
                 reply |-> [op |-> "init", key |-> "", hit |-> FALSE, value |-> "", at |-> 0]]

\* dictionary without a key
DelKey(d, k) == [x \in (DOMAIN d) \ {k} |-> d[x]]

\* an expiry test that never finds an entry expired
Expired_Never(t, expiry) == FALSE

\* if time.time() > expiry
Expired(t, expiry) == t > expiry

outside_memory ==
    <<analyzer, temp_file, passes, temp_content, matcher, clone, helper, alerts>>

connect ==
    /\ ~memory._cleanup_task
    /\ memory' = [memory EXCEPT
                    !._cleanup_task = TRUE,
                    !.reply = [op |-> "connect", key |-> "", hit |-> FALSE, value |-> "",
                               at |-> memory.now]]
    /\ UNCHANGED outside_memory

set(key, value, ttl) ==
    /\ memory' = [memory EXCEPT
                    !._cache = Put(@, key, [value |-> value, expiry |-> memory.now + ttl]),
                    !.written = Put(@, key, [value |-> value, at |-> memory.now, ttl |-> ttl]),
                    !.reply = [op |-> "set", key |-> key, hit |-> TRUE, value |-> "",
                               at |-> memory.now]]
    /\ UNCHANGED outside_memory

get(key) ==
    /\ LET found == key \in DOMAIN memory._cache
           live == found /\ ~Expired(memory.now, memory._cache[key].expiry)
       IN  memory' = [memory EXCEPT
                        !._cache = IF found /\ ~live THEN DelKey(@, key) ELSE @,
                        !.reply = [op |-> "get", key |-> key, hit |-> live,
                                   value |-> IF live THEN memory._cache[key].value ELSE "",
                                   at |-> memory.now]]
    /\ UNCHANGED outside_memory

exists(key) ==
    /\ LET found == key \in DOMAIN memory._cache
           live == found /\ ~Expired(memory.now, memory._cache[key].expiry)
       IN  memory' = [memory EXCEPT
                        !._cache = IF found /\ ~live THEN DelKey(@, key) ELSE @,
                        !.reply = [op |-> "exists", key |-> key, hit |-> live, value |-> "",
                                   at |-> memory.now]]
    /\ UNCHANGED outside_memory

delete(key) ==
    /\ memory' = [memory EXCEPT
                    !._cache = DelKey(@, key),
                    !.written = DelKey(@, key),
                    !.reply = [op |-> "delete", key |-> key,
                               hit |-> key \in DOMAIN memory._cache, value |-> "",
                               at |-> memory.now]]
    /\ UNCHANGED outside_memory

close ==
    /\ memory' = [memory EXCEPT
                    !._cache = NoEntries,
                    !._cleanup_task = FALSE,
                    !.written = NoEntries,
                    !.reply = [op |-> "close", key |-> "", hit |-> FALSE, value |-> "",
                               at |-> memory.now]]
    /\ UNCHANGED outside_memory

\* one round of the while loop, after asyncio.sleep(60) has returned
_cleanup_expired ==
    /\ memory._cleanup_task
    /\ memory' = [memory EXCEPT
                    !._cache = [k \in {x \in DOMAIN @ : ~(memory.now > @[x].expiry)} |-> @[k]]]
    /\ UNCHANGED outside_memory

\* time passes
Tick ==
    /\ memory.now < MaxTime
    /\ memory' = [memory EXCEPT !.now = @ + 1]
    /\ UNCHANGED outside_memory

NextMemory ==
    \/ connect
    \/ \E key \in CacheKeys, value \in CacheValues, ttl \in CacheTtls : set(key, value, ttl)
    \/ \E key \in CacheKeys : get(key)
    \/ \E key \in CacheKeys : exists(key)
    \/ \E key \in CacheKeys : delete(key)
    \/ close
    \/ _cleanup_expired
    \/ Tick

SpecMemory == InitMemory /\ [][NextMemory]_vars

(***************************************************************************)
(* AlertService (backend/services/alert_service.py) over the alerts table. *)
(* Every request has its own service and database session; the database    *)
(* runs each statement on the rows committed at that moment, and a SELECT  *)
(* takes no lock.  update_alert_status is one UPDATE followed by commit;    *)
(* assign_alert is a SELECT, a decision taken in Python, then an UPDATE    *)
(* followed by commit, and other requests run between the two statements.  *)
(***************************************************************************)
AlertStatus == {"NEW", "ACKNOWLEDGED", "IN_REVIEW", "ESCALATED", "RESOLVED", "FALSE_POSITIVE"}

\* alert ids that requests name: two rows of the table and an id without a row
AlertIds == {"a1", "a2", "a3"}

StoredAlerts == {"a1", "a2"}

UserIds == {"u1", "u2"}

\* the requests that run assign_alert concurrently
Requests == {"r1", "r2"}

NotCalled == [at |-> "idle", alert_id |-> "", assigned_to |-> "", acknowledge |-> FALSE]

InitAlerts ==
    /\ Constructed(NoValue)
    /\ passes = <<>>
    /\ temp_content = NoValue
    /\ matcher = NoValue
    /\ clone = NoValue
    /\ helper = NoValue
    /\ memory = NoValue
    /\ alerts = [rows |-> [a \in StoredAlerts |-> [status |-> "NEW", assigned_to |-> ""]],
                 calls |-> [r \in Requests |-> NotCalled]]

outside_alerts ==
    <<analyzer, temp_file, passes, temp_content, matcher, clone, helper, memory>>

\* update(Alert).where(Alert.id == alert_id).values(status=...) ; commit
update_alert_status(alert_id, status) ==
    /\ alerts' = IF alert_id \in DOMAIN alerts.rows
                 THEN [alerts EXCEPT !.rows[alert_id].status = status]
                 ELSE alerts
    /\ UNCHANGED outside_alerts

\* select(Alert).where(Alert.id == alert_id), then
\* if alert and alert.status == AlertStatus.NEW: update_data["status"] = ACKNOWLEDGED
assign_alert_select(r, alert_id, user) ==
    /\ alerts.calls[r].at \in {"idle", "done"}
    /\ alerts' = [alerts EXCEPT
                    !.calls[r] = [at |-> "selected", alert_id |-> alert_id,
                                  assigned_to |-> user,
                                  acknowledge |-> /\ alert_id \in DOMAIN alerts.rows
                                                  /\ alerts.rows[alert_id].status = "NEW"]]
    /\ UNCHANGED outside_alerts

\* update(Alert).where(Alert.id == alert_id).values(**update_data) ; commit
assign_alert_update(r) ==
    /\ alerts.calls[r].at = "selected"
    /\ LET call == alerts.calls[r]
           applied == [alerts EXCEPT
                         !.rows[call.alert_id] =
                             [status |-> IF call.acknowledge THEN "ACKNOWLEDGED" ELSE @.status,
                              assigned_to |-> call.assigned_to]]
       IN  alerts' = [(IF call.alert_id \in DOMAIN alerts.rows THEN applied ELSE alerts)
                         EXCEPT !.calls[r].at = "done"]
    /\ UNCHANGED outside_alerts

NextAlerts ==
    \/ \E alert_id \in AlertIds, status \in AlertStatus : update_alert_status(alert_id, status)
    \/ \E r \in Requests, alert_id \in AlertIds, user \in UserIds :
          assign_alert_select(r, alert_id, user)
    \/ \E r \in Requests : assign_alert_update(r)

SpecAlerts == InitAlerts /\ [][NextAlerts]_vars

\* END OF THE MODEL

(***************************************************************************)
(* What a fresh analyzer (the state after __init__) records for an image:  *)
(* the pipeline of analyze_image composed from the initial dictionary.     *)
(***************************************************************************)
FreshAnalysis(i, path) ==
    LET r1 == Put(InitialResults, "metadata_anomalies", _analyze_metadata(i))
        r2 == _analyze_pixel_anomalies(r1, DefaultThresholds, path, i)
        r3 == Put(r2, "forensic_indicators", _deep_forensic_inspection(DefaultThresholds, i))
    IN  _apply_compression_normalization(RawPhase(r3), Copy(i))

\* a dictionary without its timestamp field
WithoutTimestamp(res) == [k \in (DOMAIN res) \ {"analysis_timestamp"} |-> res[k]]

(***************************************************************************)
(* Vocabulary of the properties                                            *)
(***************************************************************************)
\* the analysis has computed its final dictionary (about to return, or returned)
Completed == pc \in {"return", "returned"}

\* the adjustment note says a discount was applied
Adjusted ==
    /\ "compression_adjustment" \in DOMAIN results
    /\ results["compression_adjustment"].text = "Adjusted to"

HardIndicatorTags ==
    {"CLONE_DETECTED", "COLOR_TEMPERATURE_INCONSISTENCY", "NOISE_INCONSISTENCY",
     "RESAMPLING_DETECTED", "MEDIAN_FILTER_DETECTED"}

HardIndicatorPresent ==
    \E k \in DOMAIN results["forensic_indicators"] :
        results["forensic_indicators"][k].tag \in HardIndicatorTags

BenignProfileMatched ==
    LET m == _detect_compression_profile(original_image.size, results["ela_variance"])
    IN  \E k \in DOMAIN m :
            m[k].profile \in {"whatsapp_low", "instagram", "facebook", "twitter"}

\* the raw sum of the recorded lists, clamped to at most 100
ClampedRaw == IF RawSum(results) > 100 THEN 100 ELSE RawSum(results)

\* the multiplier of the variance tier, in percent
TierPercent ==
    IF results["ela_variance"] < 1000 THEN 40
    ELSE IF results["ela_variance"] < 2000 THEN 50 ELSE 65

(***************************************************************************)
(* C1.  The recorded risk_score is an integer between 0 and 100 in every   *)
(* state of an analysis: after the raw-sum phase and after compression     *)
(* normalization, whatever the indicator lists and the variance.           *)
(***************************************************************************)
C1_RiskScoreInRange ==
    /\ results["risk_score"] \in Int
    /\ 0 <= results["risk_score"]
    /\ results["risk_score"] <= 100

\* a completed analysis whose unclamped raw sum exceeds 100
C1_Witness ==
    /\ pc = "returned"
    /\ RawSum(results) > 100
    /\ results["risk_score"] = 100

(***************************************************************************)
(* C2.  When normalization starts, the recorded score is the complete raw  *)
(* sum (weights, band boost, extremity bonus) clamped to at most 100; when *)
(* a discount was applied, the final score is the multiplier applied to    *)
(* that clamped total, clamped again; otherwise it is the clamped total.   *)
(***************************************************************************)
C2_RawSumThenDiscount ==
    /\ pc = "normalize" => results["risk_score"] = ClampedRaw
    /\ (Completed /\ Adjusted)
           => LET d == (ClampedRaw * TierPercent) \div 100
              IN  results["risk_score"] = IF d > 100 THEN 100 ELSE IF d < 0 THEN 0 ELSE d
    /\ (Completed /\ ~Adjusted) => results["risk_score"] = ClampedRaw

\* a discount was applied to a raw sum that carries the extremity bonus
C2_Witness ==
    /\ pc = "returned"
    /\ Adjusted
    /\ results["ela_variance"] < 150
    /\ results["risk_score"] > 0
    /\ results["risk_score"] < ClampedRaw

(***************************************************************************)
(* C3.  In a completed analysis a discount was applied if and only if the  *)
(* profile matcher returned a benign recompression profile and no hard     *)
(* forensic indicator (clone, color-temperature, noise, resampling,        *)
(* median-filter) is in the forensic indicator list.                       *)
(***************************************************************************)
C3_NormalizationIff ==
    Completed => (Adjusted <=> (BenignProfileMatched /\ ~HardIndicatorPresent))

\* a discount applied although a (soft) forensic indicator is present
C3_Witness ==
    /\ pc = "returned"
    /\ Adjusted
    /\ Len(results["forensic_indicators"]) > 0

(***************************************************************************)
(* C4.  Error-map variance inside the whatsapp_low band [10, 50], image    *)
(* dimensions matching that profile's typical size, no hard indicator.     *)
(***************************************************************************)
WhatsappCase ==
    /\ Completed
    /\ 100 <= results["ela_variance"] /\ results["ela_variance"] <= 500
    /\ SizeMatch(original_image.size, <<1280, 1280>>)
    /\ ~HardIndicatorPresent

\* C4 as claimed: the final score is strictly less than the raw sum and
\* likely_source is whatsapp_low.
C4_Original ==
    WhatsappCase =>
        /\ results["risk_score"] < RawSum(results)
        /\ results["likely_source"] = "whatsapp_low"

\* C4 as amended: the final score is at most the raw sum, strictly less
\* whenever the raw sum is positive, and likely_source is whatsapp_low.
C4_Amended ==
    WhatsappCase =>
        /\ results["risk_score"] <= RawSum(results)
        /\ RawSum(results) > 0 => results["risk_score"] < RawSum(results)
        /\ results["likely_source"] = "whatsapp_low"

\* a whatsapp_low image with a positive raw sum, discounted
C4_Witness ==
    /\ WhatsappCase
    /\ pc = "returned"
    /\ RawSum(results) > 0
    /\ results["risk_score"] < RawSum(results)
    /\ results["likely_source"] = "whatsapp_low"

(***************************************************************************)
(* C5.  Whenever normalization does not apply to an analysis, its result   *)
(* records that no adjustment was made and likely_source = 'unknown', for  *)
(* every analysis of a sequence run on one analyzer.                       *)
(***************************************************************************)
C5_Original ==
    (Completed /\ ~(BenignProfileMatched /\ ~HardIndicatorPresent))
        => /\ results["compression_adjustment"] = NoAdjustment
           /\ results["likely_source"] = "unknown"

(***************************************************************************)
(* C6.  An analysis of an input yields the same anomalies, indicators,     *)
(* metrics, score, adjustment note and likely source (timestamp excluded)  *)
(* whether it runs on a fresh analyzer or on one that has analysed other   *)
(* inputs before.                                                          *)
(***************************************************************************)
C6_Original ==
    pc = "return" =>
        WithoutTimestamp(results) = WithoutTimestamp(FreshAnalysis(img, image_path))

(***************************************************************************)
(* C7.  Once a result has been returned to a caller, no later step of the  *)
(* analyzer changes any field of it.  The returned value is the analyzer's *)
(* own dictionary, so this says the dictionary never changes again.        *)
(***************************************************************************)
C7_Original == [][held => results' = results]_vars

(***************************************************************************)
(* C8.  A failed analyze_image returns a value with an error message and   *)
(* no risk_score, and generate_report then returns status 'failed' with no *)
(* summary and no risk score.                                              *)
(***************************************************************************)
C8_FailureIsDistinct ==
    pc = "failed" =>
        /\ "error" \in DOMAIN Deref(analysis, results)
        /\ "risk_score" \notin DOMAIN Deref(analysis, results)
        /\ report.status = "failed"
        /\ "error_message" \in DOMAIN report
        /\ "summary" \notin DOMAIN report
        /\ "risk_score" \notin DOMAIN report
        /\ "detailed_findings" \notin DOMAIN report

\* an undecodable input given to an analyzer whose dictionary holds the
\* score of an earlier analysis
C8_Witness ==
    /\ pc = "failed"
    /\ analysis = [error |-> <<"Analysis failed: ", "cannot identify image file">>]
    /\ report.status = "failed"
    /\ held
    /\ results["risk_score"] > 0

(***************************************************************************)
(* C9.  For a decodable image a step that raises is omitted and the        *)
(* analysis still returns a normal result: the only failures are inputs    *)
(* that cannot be read or decoded.                                         *)
(***************************************************************************)
C9_Original ==
    pc = "failed" => analysis["error"][2] = "cannot identify image file"

(***************************************************************************)
(* C10.  _temp_ela.jpg does not exist once an error-map step has ended,    *)
(* on every exit path.  Every action holds whole error-map steps, so the   *)
(* file is absent in every state.                                          *)
(***************************************************************************)
C10_Original == temp_file = "absent"

(***************************************************************************)
(* C11: the pixel analyzer and the deep inspector share no mutable state:  *)
(* under every interleaving, for one photo or for two, no error-map pass   *)
(* fails and each pass reads back exactly the re-encoding it wrote (so its *)
(* metrics are those of a run alone).                                      *)
(***************************************************************************)
C11_Original ==
    \A t \in DOMAIN passes :
        /\ passes[t].at # "raised"
        /\ passes[t].at \in {"remove", "done"}
              => passes[t].read = Reencoding(passes[t].photo)

(***************************************************************************)
(* C12: the calibration profile given to the constructor determines the    *)
(* thresholds every step uses, the shipped defaults filling in only what   *)
(* was not supplied: the pixel step's interpretation and anomalies and the *)
(* deep step's indicators are those computed under the supplied values.    *)
(***************************************************************************)
SuppliedThresholds ==
    [k \in DOMAIN DefaultThresholds |->
        IF k \in DOMAIN calibration_summary THEN calibration_summary[k]
        ELSE DefaultThresholds[k]]

C12_Original ==
    /\ pc = "deep" =>
          /\ results["ela_interpretation"] =
                _interpret_ela_with_context(SuppliedThresholds, image_path, img.size, img.ela10)
          /\ results["pixel_anomalies"] = PixelAnomalies(SuppliedThresholds, image_path, img)
    /\ pc = "score" =>
          results["forensic_indicators"] = _deep_forensic_inspection(SuppliedThresholds, img)

(***************************************************************************)
(* C13: no analysis step modifies the thresholds: after any sequence of    *)
(* analyses, web-sourced and small images included, the analyzer's         *)
(* thresholds equal their values at construction.                          *)
(***************************************************************************)
C13_ThresholdsUnchanged == thresholds = DefaultThresholds

\* a second or later analysis, of a web-sourced small image, has completed
C13_Witness ==
    /\ pc = "returned"
    /\ invocations >= 2
    /\ image_path \in WebPaths
    /\ original_image.size[1] * original_image.size[2] < small_image_pixels
    /\ "ela_interpretation" \in DOMAIN results

(***************************************************************************)
(* C14: GPS_DATA_PRESENT is informational only: the analysis of an image   *)
(* whose EXIF data reports GPS and the analysis of the same image without  *)
(* it have the same raw sum and the same final risk score.                 *)
(***************************************************************************)
WithoutGps(i) == [i EXCEPT !.exif.gps = FALSE]

C14_Original ==
    (pc = "return" /\ img.exif.gps) =>
        LET other == FreshAnalysis(WithoutGps(img), image_path)
        IN  /\ RawSum(results) = RawSum(other)
            /\ results["risk_score"] = other["risk_score"]

(***************************************************************************)
(* The weight one recorded anomaly adds to the raw sum: the raw sum of the *)
(* dictionary less the raw sum of the dictionary without that anomaly.     *)
(***************************************************************************)
Without(s, k) == SubSeq(s, 1, k - 1) \o SubSeq(s, k + 1, Len(s))

MetadataContribution(k) ==
    RawSum(results)
    - RawSum(Put(results, "metadata_anomalies", Without(results["metadata_anomalies"], k)))

\* the kind of a metadata anomaly, as the first keyword its message contains
MetadataKind(a) ==
    IF Contains(a, "NO_EXIF_DATA") THEN "no-metadata"
    ELSE IF Contains(a, "UNUSUAL_FORMAT") THEN "unusual-format"
    ELSE IF Contains(a, "EDITING_SOFTWARE") THEN "editing-software"
    ELSE "other-default"

KindsRecorded ==
    {MetadataKind(results["metadata_anomalies"][k]) : k \in DOMAIN results["metadata_anomalies"]}

\* the anomalies of one completed analysis weigh in the order given by rank
WeighInOrder(rank) ==
    Completed =>
        \A j, k \in DOMAIN results["metadata_anomalies"] :
            rank[MetadataKind(results["metadata_anomalies"][j])]
                < rank[MetadataKind(results["metadata_anomalies"][k])]
            => MetadataContribution(j) < MetadataContribution(k)

(***************************************************************************)
(* C15 as stated: metadata anomalies weigh in the strict order             *)
(* no-metadata < unusual-format < editing-software < other-default.        *)
(***************************************************************************)
C15_Original ==
    WeighInOrder([x \in {"no-metadata"} |-> 1] @@ [x \in {"unusual-format"} |-> 2]
                 @@ [x \in {"editing-software"} |-> 3] @@ [x \in {"other-default"} |-> 4])

(***************************************************************************)
(* C15 amended: metadata anomalies weigh in the strict order               *)
(* no-metadata < unusual-format < other-default < editing-software, the    *)
(* kind of an anomaly being the first of the keywords NO_EXIF_DATA,        *)
(* UNUSUAL_FORMAT, EDITING_SOFTWARE that its message contains.             *)
(***************************************************************************)
C15_Amended ==
    WeighInOrder([x \in {"no-metadata"} |-> 1] @@ [x \in {"unusual-format"} |-> 2]
                 @@ [x \in {"other-default"} |-> 3] @@ [x \in {"editing-software"} |-> 4])

\* a completed analysis that recorded an unusual format, editing software and
\* an anomaly of another kind; and one that recorded no-metadata with a format
C15_Witness ==
    /\ Completed
    /\ {"unusual-format", "editing-software", "other-default"} \subseteq KindsRecorded

(***************************************************************************)
(* C16: forensic indicators weigh clone > resampling > median-filter >     *)
(* color-temperature = noise > compression > unclassified, the weight of a *)
(* kind being what one more indicator of that kind adds to the raw sum.    *)
(***************************************************************************)
ForensicContribution(tag) ==
    RawSum(Put(results, "forensic_indicators",
               Append(results["forensic_indicators"], Msg(tag, "", <<>>))))
    - RawSum(results)

C16_Original ==
    Completed =>
        /\ ForensicContribution("CLONE_DETECTED") > ForensicContribution("RESAMPLING_DETECTED")
        /\ ForensicContribution("RESAMPLING_DETECTED") > ForensicContribution("MEDIAN_FILTER_DETECTED")
        /\ ForensicContribution("MEDIAN_FILTER_DETECTED")
              > ForensicContribution("COLOR_TEMPERATURE_INCONSISTENCY")
        /\ ForensicContribution("COLOR_TEMPERATURE_INCONSISTENCY")
              = ForensicContribution("NOISE_INCONSISTENCY")
        /\ ForensicContribution("NOISE_INCONSISTENCY") > ForensicContribution("COMPRESSION_ANOMALIES")
        /\ ForensicContribution("COMPRESSION_ANOMALIES") > ForensicContribution("UNCLASSIFIED_INDICATOR")

(***************************************************************************)
(* C17: when EXIF data is present, UNUSUAL_CAMERA_MODEL is recorded both   *)
(* when make and model are absent and when they match no allow-listed      *)
(* manufacturer, and never when an allow-listed manufacturer is recognised.*)
(***************************************************************************)
C17_Original ==
    (pc = "pixel" /\ img.exif.present) =>
        ((\E k \in DOMAIN results["metadata_anomalies"] :
              results["metadata_anomalies"][k].tag = "UNUSUAL_CAMERA_MODEL")
         <=> img.exif.model \notin TypicalCameras)

(***************************************************************************)
(* C18: for every variance and size the matcher returns exactly the        *)
(* profiles whose variance range, bounds included, contains the variance,  *)
(* in table order, each HIGH when width and height are both within 50% of  *)
(* the profile's typical dimensions and MEDIUM otherwise, size_match being *)
(* true exactly for HIGH.                                                  *)
(***************************************************************************)
\* the table positions whose range contains the variance
Containing(ela10) ==
    {k \in DOMAIN CompressionProfiles :
        CompressionProfiles[k].low10 <= ela10 /\ ela10 <= CompressionProfiles[k].high10}

\* typical/2 <= x <= 3*typical/2
WithinHalf(x, typical) == typical <= 2 * x /\ 2 * x <= 3 * typical

CloneReturned == clone # NoValue /\ clone.at = "returned"

CloneDetectedRaised ==
    \E k \in DOMAIN clone.indicators : clone.indicators[k].tag = "CLONE_DETECTED"

\* two identical blocks on the block grid farther apart than
\* clone_distance_min_blocks x clone_block_size
DistantIdenticalBlocks ==
    \E a, b \in GridOrigins(clone.image.size, thresholds.clone_block_size) :
        /\ a # b
        /\ Crop(clone.image, a) = Crop(clone.image, b)
        /\ FartherThan(a, b, thresholds.clone_block_size * thresholds.clone_distance_min_blocks)

(***************************************************************************)
(* C19: an image with two identical blocks on the block grid, at any grid  *)
(* position and whatever other identical blocks exist, farther apart than  *)
(* clone_distance_min_blocks x clone_block_size, gets at least one pair    *)
(* reported and CLONE_DETECTED raised.                                     *)
(***************************************************************************)
C19_Original ==
    (CloneReturned /\ DistantIdenticalBlocks) =>
        (Len(clone.clone_regions) >= 1 /\ CloneDetectedRaised)

(***************************************************************************)
(* C20: a fully uniform image with several blocks per side (at least four  *)
(* whole blocks each way) triggers clone detection: every examined block   *)
(* has the same hash, at least one pair is reported and CLONE_DETECTED is  *)
(* raised.                                                                 *)
(***************************************************************************)
SeveralBlocksPerSide ==
    /\ clone.image.size[1] >= 4 * thresholds.clone_block_size
    /\ clone.image.size[2] >= 4 * thresholds.clone_block_size

C20_UniformImageFlagged ==
    (clone # NoValue /\ clone.image.uniform) =>
        /\ \A a, b \in clone.examined :
              phash(Crop(clone.image, a)) = phash(Crop(clone.image, b))
        /\ Cardinality(DOMAIN clone.hashes) <= 1
        /\ (clone.at = "returned" /\ SeveralBlocksPerSide) =>
              (Len(clone.clone_regions) >= 1 /\ CloneDetectedRaised)

\* the scan of a uniform image of several blocks per side has returned
C20_Witness ==
    /\ CloneReturned
    /\ clone.image.uniform
    /\ SeveralBlocksPerSide
    /\ Cardinality(clone.examined) >= 9

(***************************************************************************)
(* Vocabulary of the color-temperature properties                          *)
(***************************************************************************)
ColorTemperatureReturned ==
    helper # NoValue /\ helper.fn = "_analyze_color_temperature" /\ helper.at = "returned"

\* the ratio a/b of two channel means is more than 0.2 away from 1.0; equal
\* means have ratio 1, a positive mean over a zero mean is infinitely far
Deviates(a, b) == IF a = b THEN FALSE ELSE 5 * Abs(a - b) > b

(***************************************************************************)
(* C21: the color-temperature check fires exactly when the red/green or    *)
(* the red/blue ratio of the channel means deviates from 1.0 by more than  *)
(* 0.2; in particular it fires whenever the red mean is 30% above equal    *)
(* green and blue means.                                                   *)
(***************************************************************************)
C21_Original ==
    ColorTemperatureReturned =>
        /\ helper.fired <=>
              (Deviates(helper.means[1], helper.means[2])
               \/ Deviates(helper.means[1], helper.means[3]))
        /\ (helper.means[2] = helper.means[3] /\ helper.means[2] > 0
            /\ helper.means[2] % 10 = 0
            /\ helper.means[1] = 13 * (helper.means[2] \div 10)) => helper.fired

(***************************************************************************)
(* C30: for every image whose three channel means are equal, the all-black *)
(* image included, the color-temperature check does not fire and no        *)
(* COLOR_TEMPERATURE_INCONSISTENCY indicator is emitted.                   *)
(***************************************************************************)
C30_Original ==
    (ColorTemperatureReturned /\ helper.means[1] = helper.means[2]
        /\ helper.means[2] = helper.means[3]) =>
        (~helper.fired /\ helper.indicators = <<>>)

(***************************************************************************)
(* C25: with the band edges in order, the interpretation is high-risk for  *)
(* variance < very_low, low-risk for very_low <= variance < low, high-risk *)
(* for variance > very_high, medium-risk for high < variance <= very_high  *)
(* and normal otherwise, with boosts 12, 1, 12, 6 and 0; very_low and low  *)
(* are multiplied by 0.9 and 0.95 exactly when the image has fewer than    *)
(* 1,000,000 pixels or its path is an http(s) location.                    *)
(***************************************************************************)
C25_Bands ==
    (helper # NoValue /\ helper.fn = "_interpret_ela_with_context" /\ helper.at = "returned") =>
        LET v == helper.ela10
            tightened ==
                \/ helper.size[1] * helper.size[2] < 1000000
                \/ helper.path \in {"https://cdn.example/a.jpg", "http://cdn.example/a.jpg"}
            \* twentieths of a tenth, so that x0.9 and x0.95 stay whole
            very_low == IF tightened THEN 18 * thresholds.ela.very_low10
                        ELSE 20 * thresholds.ela.very_low10
            low == IF tightened THEN 19 * thresholds.ela.low10 ELSE 20 * thresholds.ela.low10
            high == 20 * thresholds.ela.high10
            very_high == 20 * thresholds.ela.very_high10
            expected ==
                IF 20 * v < very_low THEN <<"HIGH_RISK", 12>>
                ELSE IF 20 * v < low THEN <<"LOW_RISK", 1>>
                ELSE IF 20 * v > very_high THEN <<"HIGH_RISK", 12>>
                ELSE IF 20 * v > high THEN <<"MEDIUM_RISK", 6>>
                ELSE <<"NORMAL", 0>>
        IN  <<helper.ela_risk.level, helper.ela_risk.risk_boost>> = expected

\* a one-megapixel local image just under the untightened low edge, and a
\* smaller one on the tightened low edge, have been interpreted
C25_Witness ==
    /\ helper # NoValue
    /\ helper.fn = "_interpret_ela_with_context"
    /\ helper.at = "returned"
    /\ \/ helper.size = <<1000, 1000>> /\ helper.path = FilePath /\ helper.ela10 = 399
             /\ helper.ela_risk.level = "LOW_RISK"
       \/ helper.size = <<999, 1000>> /\ helper.path = FilePath /\ helper.ela10 = 380
             /\ helper.ela_risk.level = "NORMAL"

(***************************************************************************)
(* C22: every indicator's contribution to the raw sum is non-negative:     *)
(* each recorded indicator adds at least 0, and one more indicator in the  *)
(* metadata, pixel or forensic list never lowers the raw sum nor the       *)
(* clamped pre-normalization score.                                        *)
(***************************************************************************)
IndicatorLists == {"metadata_anomalies", "pixel_anomalies", "forensic_indicators"}

IndicatorSamples ==
    {Msg(tag, "", <<>>) :
        tag \in {"NO_EXIF_DATA", "UNUSUAL_FORMAT", "EDITING_SOFTWARE", "UNUSUAL_CAMERA_MODEL",
                 "METADATA_MODIFIED", "GPS_DATA_PRESENT", "EXTREMELY_LOW_ELA",
                 "NOISE_INCONSISTENCY", "EDGE_CONSISTENCY", "HIGH_QUANTIZATION",
                 "CLONE_DETECTED", "RESAMPLING_DETECTED", "MEDIAN_FILTER_DETECTED",
                 "COMPRESSION_ANOMALIES", "COLOR_TEMPERATURE_INCONSISTENCY",
                 "UNCLASSIFIED_INDICATOR"}}

C22_Monotone ==
    pc = "normalize" =>
        \A list \in IndicatorLists :
            /\ \A k \in DOMAIN results[list] :
                  RawSum(results) >= RawSum(Put(results, list, Without(results[list], k)))
            /\ \A m \in IndicatorSamples :
                  LET more == Put(results, list, Append(results[list], m))
                  IN  /\ RawSum(more) >= RawSum(results)
                      /\ RawPhase(more)["risk_score"] >= results["risk_score"]

\* the raw phase has run on lists that are all non-empty, with the clamp engaged
C22_Witness ==
    /\ pc = "normalize"
    /\ \A list \in IndicatorLists : results[list] # <<>>
    /\ RawSum(results) > 100
    /\ results["risk_score"] = 100

(***************************************************************************)
(* What the raw sum holds beyond the weights of the three lists and the    *)
(* band's risk boost: the extremity bonus.                                 *)
(***************************************************************************)
BonusInRawSum ==
    RawSum(results)
    - SumSeq([k \in DOMAIN results["metadata_anomalies"] |->
                 MetadataContribution(k)])
    - 6 * Len(results["pixel_anomalies"])
    - SumSeq([k \in DOMAIN results["forensic_indicators"] |->
                 ForensicWeight(results["forensic_indicators"][k])])
    - results["ela_interpretation"].risk_boost

BandLevel == results["ela_interpretation"].level

(***************************************************************************)
(* C26 as stated: the bonus is added exactly when the variance is below    *)
(* the lowest or above the highest band edge, which are exactly the        *)
(* analyses classified high-risk; a variance classified low-risk,          *)
(* medium-risk or normal never receives the bonus.                         *)
(***************************************************************************)
C26_Original ==
    Completed =>
        /\ BonusInRawSum > 0 <=>
              (results["ela_variance"] < thresholds.ela.very_low10
               \/ results["ela_variance"] > thresholds.ela.very_high10)
        /\ BonusInRawSum > 0 <=> BandLevel = "HIGH_RISK"

(***************************************************************************)
(* C26 amended: the bonus (5) is added exactly when the variance is below  *)
(* the shipped very_low edge (15) or above the shipped very_high edge      *)
(* (1000).  Every analysis classified high-risk receives it; an analysis   *)
(* that receives it is classified high-risk, except that for a small or    *)
(* web-sourced image a variance from 0.9 x very_low up to very_low is      *)
(* classified low-risk and still receives the bonus.  Medium-risk and      *)
(* normal variances never receive it.                                      *)
(***************************************************************************)
C26_Amended ==
    Completed =>
        /\ BonusInRawSum \in {0, 5}
        /\ BonusInRawSum = 5 <=> (results["ela_variance"] < 150 \/ results["ela_variance"] > 10000)
        /\ BandLevel = "HIGH_RISK" => BonusInRawSum = 5
        /\ (BonusInRawSum = 5 /\ BandLevel # "HIGH_RISK") =>
              /\ BandLevel = "LOW_RISK"
              /\ \/ image_path \in WebPaths
                 \/ original_image.size[1] * original_image.size[2] < 1000000
              /\ 10 * results["ela_variance"] >= 9 * 150
              /\ results["ela_variance"] < 150

\* completed analyses with the bonus: one classified low-risk, one above the top edge
C26_Witness ==
    /\ Completed
    /\ BonusInRawSum = 5
    /\ \/ BandLevel = "LOW_RISK"
       \/ results["ela_variance"] > 10000

(***************************************************************************)
(* C28: whenever compression normalization is applied, the likely source   *)
(* recorded is the first profile in table order whose range contains the   *)
(* variance, and it is one of whatsapp_low, instagram, facebook, twitter:  *)
(* never original_camera, never unknown.                                   *)
(***************************************************************************)
C28_FirstBenignProfile ==
    (Completed /\ Adjusted) =>
        LET hits == Containing(results["ela_variance"])
        IN  /\ hits # {}
            /\ \E k \in hits :
                  /\ \A h \in hits : k <= h
                  /\ results["likely_source"] = CompressionProfiles[k].profile
            /\ results["likely_source"] \in {"whatsapp_low", "instagram", "facebook", "twitter"}

\* a discounted analysis whose variance also lies in the camera profile's range
C28_Witness ==
    /\ Completed
    /\ Adjusted
    /\ results["ela_variance"] = 1500
    /\ results["likely_source"] = "instagram"

(***************************************************************************)
(* C29: whenever compression normalization is applied, the final score     *)
(* does not exceed the clamped raw score and is at most 65, so the report  *)
(* of such a result never says HIGH.                                       *)
(***************************************************************************)
C29_DiscountedNeverHigh ==
    (Completed /\ Adjusted) =>
        /\ results["risk_score"] <= ClampedRaw
        /\ results["risk_score"] <= 65
        /\ RiskLevel(results["risk_score"]) # "HIGH"
        /\ pc = "returned" => report.summary.risk_level # "HIGH"

\* a discounted analysis with a positive score has been reported
C29_Witness ==
    /\ pc = "returned"
    /\ Adjusted
    /\ results["risk_score"] >= 20
    /\ report.summary.risk_score = results["risk_score"]

(***************************************************************************)
(* C27: in clone detection the hash map never replaces a first-seen block  *)
(* coordinate (each hash stays mapped to the earliest examined block that  *)
(* has it); every reported pair is the first-seen block of a hash and a    *)
(* later-scanned block of the same hash whose Euclidean distance from it   *)
(* strictly exceeds clone_distance_min_blocks x clone_block_size; and at   *)
(* most 10 pairs are returned.                                             *)
(***************************************************************************)
\* a is scanned before b: rows from the top, and left to right in a row
ScannedBefore(a, b) == a[2] < b[2] \/ (a[2] = b[2] /\ a[1] < b[1])

HashAt(origin) == phash(Crop(clone.image, origin))

C27_CloneInvariants ==
    clone # NoValue =>
        /\ \A h \in DOMAIN clone.hashes :
              /\ clone.hashes[h] \in clone.examined
              /\ HashAt(clone.hashes[h]) = h
              /\ \A e \in clone.examined :
                    HashAt(e) = h => (e = clone.hashes[h] \/ ScannedBefore(clone.hashes[h], e))
        /\ \A k \in DOMAIN clone.similar_blocks :
              LET first == clone.similar_blocks[k].block1
                  later == clone.similar_blocks[k].block2
                  dx == later[1] - first[1]
                  dy == later[2] - first[2]
                  limit == thresholds.clone_distance_min_blocks * thresholds.clone_block_size
              IN  /\ later \in clone.examined
                  /\ HashAt(later) \in DOMAIN clone.hashes
                  /\ first = clone.hashes[HashAt(later)]
                  /\ HashAt(first) = HashAt(later)
                  /\ ScannedBefore(first, later)
                  /\ dx * dx + dy * dy > limit * limit
        /\ Len(clone.clone_regions) <= 10
        /\ clone.at = "returned" =>
              /\ Len(clone.clone_regions) <= Len(clone.similar_blocks)
              /\ clone.clone_regions = SubSeq(clone.similar_blocks, 1, Len(clone.clone_regions))
              /\ Len(clone.similar_blocks) > 10 => Len(clone.clone_regions) = 10

\* a scan that found more than ten pairs has returned ten
C27_Witness ==
    /\ CloneReturned
    /\ Len(clone.similar_blocks) > 10
    /\ Len(clone.clone_regions) = 10

(***************************************************************************)
(* C23: MemoryBackend never serves an expired entry.  After set(key,       *)
(* value, ttl), and while the key was not overwritten, deleted or cleared, *)
(* get(key) returns value and exists(key) is true as long as less than ttl *)
(* has elapsed; once the expiry time has passed get returns None and       *)
(* exists returns false, whatever the background cleanup has done; a key   *)
(* that was never set, or deleted or cleared since, is not served either.  *)
(***************************************************************************)
C23_NeverServesExpired ==
    (memory # NoValue /\ memory.reply.op \in {"get", "exists"}) =>
        LET r == memory.reply
            known == r.key \in DOMAIN memory.written
        IN  /\ (known /\ r.at - memory.written[r.key].at < memory.written[r.key].ttl) =>
                  /\ r.hit
                  /\ r.op = "get" => r.value = memory.written[r.key].value
            /\ (known /\ r.at > memory.written[r.key].at + memory.written[r.key].ttl) => ~r.hit
            /\ ~known => ~r.hit

\* get was called on an entry after its expiry time, the cleanup task being on
C23_Witness ==
    /\ memory # NoValue
    /\ memory._cleanup_task
    /\ memory.reply.op = "get"
    /\ memory.reply.key \in DOMAIN memory.written
    /\ memory.reply.at > memory.written[memory.reply.key].at + memory.written[memory.reply.key].ttl
    /\ ~memory.reply.hit

(***************************************************************************)
(* C24: the UPDATE of assign_alert changes an alert's status only from NEW *)
(* to ACKNOWLEDGED: when it is applied to an alert whose status is not NEW *)
(* it leaves that status as it is, also when update_alert_status has run   *)
(* between assign_alert's SELECT and its UPDATE.                           *)
(***************************************************************************)
C24_Original ==
    [][\A r \in Requests :
          (alerts.calls[r].at = "selected" /\ alerts'.calls[r].at = "done") =>
              \A a \in DOMAIN alerts.rows :
                  alerts'.rows[a].status # alerts.rows[a].status =>
                      /\ alerts.rows[a].status = "NEW"
                      /\ alerts'.rows[a].status = "ACKNOWLEDGED"]_vars

====
